---- MODULE Spec2Model ----
(***************************************************************************)
(* Model of the screen-streaming pipelines of paper-experiments-2k23:      *)
(*   src/src/types.rs        FrameData, its property traits, its bincode   *)
(*                           Encode / Decode                               *)
(*   src/examples/server.rs  pools, Error pipeline, Main pipeline (server) *)
(*   src/examples/client.rs  pools, Error pipeline, Main pipeline (client) *)
(* The processors the examples append (borrower, redeemer, OnErrorSwitch,  *)
(* timestamp processors, codec, transport) and the Component task loop     *)
(* belong to the remotia runtime, whose code is not among the sources; they *)
(* are modelled from the design document.                                  *)
(***************************************************************************)
EXTENDS Integers, Sequences, FiniteSets, TLC

(***************************************************************************)
(* Bounds of the model.                                                    *)
(***************************************************************************)
\* contexts the source Component of a Main pipeline originates
MaxFrames == 3
\* capacity of the channel in front of a Component
ChanCap == 2
\* entries of a statistics / buffers map in the serialization round trip
MaxEntries == 2
\* length of a buffer's contents in the serialization round trip
MaxBufLen == 1

(***************************************************************************)
(* types.rs: the enumerations.  A variant's position is the discriminant   *)
(* the derived Encode writes.                                              *)
(***************************************************************************)
BufferTypeVariants ==
    << "YUVFrameBuffer", "EncodedFrameBuffer", "SerializedFrameData",
       "DecodedRGBAFrameBuffer" >>

StatVariants ==
    << "CaptureTime", "EncodePushTime", "TransmissionStartTime", "DecodePushTime",
       "EncodeTime", "TransmissionTime", "DecodeTime",
       "FrameDelay", "ReceptionDelay" >>

ErrorVariants == << "NoFrame", "CodecError" >>

\* the values of a sequence or map
Range(s) == { s[i] : i \in DOMAIN s }

\* Option<T>: None is {}, Some(x) is {x}
None == {}
Some(x) == {x}
Unwrap(o) == CHOOSE x \in o : TRUE

\* the empty map
EmptyMap == [k \in {} |-> 0]

\* HashMap::insert
MapInsert(m, key, value) ==
    [k \in DOMAIN m \cup {key} |-> IF k = key THEN value ELSE m[k]]

\* HashMap::remove
MapRemove(m, key) == [k \in DOMAIN m \ {key} |-> m[k]]

\* #[derive(Default)] FrameData
DefaultFrameData == [statistics |-> EmptyMap, buffers |-> EmptyMap, error |-> None]

(***************************************************************************)
(* types.rs: the property traits of FrameData.                             *)
(***************************************************************************)
\* FrameProperties::set
\* a set that forgets the statistics recorded so far
SetForgets(fd, key, value) ==
    [fd EXCEPT !.statistics = MapInsert(EmptyMap, key, value)]

Set(fd, key, value) == [fd EXCEPT !.statistics = MapInsert(@, key, value)]

\* FrameProperties::get
Get(fd, key) ==
    IF key \in DOMAIN fd.statistics THEN Some(fd.statistics[key]) ELSE None

\* PullableFrameProperties::push
Push(fd, key, value) == [fd EXCEPT !.buffers = MapInsert(@, key, value)]

\* a pull that clears the map instead of removing the key
PullClears(fd, key) ==
    [frame |-> [fd EXCEPT !.buffers = EmptyMap],
     value |-> IF key \in DOMAIN fd.buffers THEN Some(fd.buffers[key]) ELSE None]

\* a pull that leaves the buffer in the context
PullKeeps(fd, key) ==
    [frame |-> fd,
     value |-> IF key \in DOMAIN fd.buffers THEN Some(fd.buffers[key]) ELSE None]

\* PullableFrameProperties::pull: the frame without the key, and the buffer taken
Pull(fd, key) ==
    [frame |-> [fd EXCEPT !.buffers = MapRemove(@, key)],
     value |-> IF key \in DOMAIN fd.buffers THEN Some(fd.buffers[key]) ELSE None]

\* BorrowFrameProperties::get_ref
GetRef(fd, key) ==
    IF key \in DOMAIN fd.buffers THEN Some(fd.buffers[key]) ELSE None

\* FrameError::report_error
ReportError(fd, error) == [fd EXCEPT !.error = Some(error)]

\* a get_error that never sees the error
GetErrorNone(fd) == None

\* a get_error that always reports one
GetErrorSome(fd) == Some("CodecError")

\* FrameError::get_error
GetError(fd) == fd.error

(***************************************************************************)
(* types.rs: bincode serialization of FrameData.  Integers are written in  *)
(* bincode's variable-length form, an enum as its variant index, an Option *)
(* as a tag byte, a map as its length followed by its entries in the       *)
(* map's iteration order, which a HashMap does not fix: the order is an    *)
(* input of the encoder.                                                   *)
(***************************************************************************)
RECURSIVE Flatten(_)
Flatten(ss) == IF ss = << >> THEN << >> ELSE Head(ss) \o Flatten(Tail(ss))

RECURSIVE Pow256(_)
Pow256(n) == IF n = 0 THEN 1 ELSE 256 * Pow256(n - 1)

\* n bytes of v, little endian
ToLE(v, n) == [i \in 1..n |-> (v \div Pow256(i - 1)) % 256]

RECURSIVE FromLE(_)
FromLE(bs) == IF bs = << >> THEN 0 ELSE Head(bs) + 256 * FromLE(Tail(bs))

\* bincode varint: one byte below 251, else a marker and 2, 4, 8 or 16 bytes
VarintEncode(v) ==
    IF v < 251 THEN << v >>
    ELSE IF v < 65536 THEN << 251 >> \o ToLE(v, 2)
    ELSE << 252 >> \o ToLE(v, 4)

\* the discriminant of an enum variant
Discriminant(variants, x) == (CHOOSE i \in DOMAIN variants : variants[i] = x) - 1

EncodeEnum(variants, x) == VarintEncode(Discriminant(variants, x))

\* Vec<u8>: length, then the bytes
EncodeBytes(bytes) == VarintEncode(Len(bytes)) \o bytes

\* Option<Error>
EncodeOption(o) ==
    IF o = None THEN << 0 >> ELSE << 1 >> \o EncodeEnum(ErrorVariants, Unwrap(o))

\* HashMap<Stat, u128>, its entries in iteration order `order`
EncodeStatistics(m, order) ==
    VarintEncode(Len(order))
    \o Flatten([i \in DOMAIN order |->
                   EncodeEnum(StatVariants, order[i]) \o VarintEncode(m[order[i]])])

\* HashMap<&BufferType, Vec<u8>>, its entries in iteration order `order`
EncodeBuffers(m, order) ==
    VarintEncode(Len(order))
    \o Flatten([i \in DOMAIN order |->
                   EncodeEnum(BufferTypeVariants, order[i]) \o EncodeBytes(m[order[i]])])

\* impl Encode for FrameData
Encode(fd, statOrder, bufOrder) ==
    EncodeStatistics(fd.statistics, statOrder)
    \o EncodeOption(fd.error)
    \o EncodeBuffers(fd.buffers, bufOrder)

\* a decoder's result: failed, or a value and the bytes not yet read
Fail == [ok |-> FALSE, val |-> 0, rest |-> << >>]
Ok(v, rest) == [ok |-> TRUE, val |-> v, rest |-> rest]

Take(bs, n) == SubSeq(bs, 1, n)
Drop(bs, n) == SubSeq(bs, n + 1, Len(bs))

DecodeFixed(bs, n) ==
    IF Len(bs) < n THEN Fail ELSE Ok(FromLE(Take(bs, n)), Drop(bs, n))

VarintDecode(bs) ==
    IF bs = << >> THEN Fail
    ELSE IF bs[1] < 251 THEN Ok(bs[1], Tail(bs))
    ELSE IF bs[1] = 251 THEN DecodeFixed(Tail(bs), 2)
    ELSE IF bs[1] = 252 THEN DecodeFixed(Tail(bs), 4)
    ELSE IF bs[1] = 253 THEN DecodeFixed(Tail(bs), 8)
    ELSE IF bs[1] = 254 THEN DecodeFixed(Tail(bs), 16)
    ELSE Fail

DecodeEnum(variants, bs) ==
    LET d == VarintDecode(bs)
    IN  IF ~d.ok \/ d.val >= Len(variants) THEN Fail
        ELSE Ok(variants[d.val + 1], d.rest)

DecodeBytes(bs) ==
    LET n == VarintDecode(bs)
    IN  IF ~n.ok \/ Len(n.rest) < n.val THEN Fail
        ELSE Ok(Take(n.rest, n.val), Drop(n.rest, n.val))

DecodeOption(bs) ==
    IF bs = << >> THEN Fail
    ELSE IF bs[1] = 0 THEN Ok(None, Tail(bs))
    ELSE IF bs[1] = 1
         THEN LET e == DecodeEnum(ErrorVariants, Tail(bs))
              IN  IF e.ok THEN Ok(Some(e.val), e.rest) ELSE Fail
    ELSE Fail

\* n entries of a HashMap<Stat, u128>, inserted into acc as they are read
RECURSIVE DecodeStatEntries(_, _, _)
DecodeStatEntries(bs, n, acc) ==
    IF n = 0 THEN Ok(acc, bs)
    ELSE LET k == DecodeEnum(StatVariants, bs)
             v == VarintDecode(k.rest)
         IN  IF ~k.ok \/ ~v.ok THEN Fail
             ELSE DecodeStatEntries(v.rest, n - 1, MapInsert(acc, k.val, v.val))

DecodeStatistics(bs) ==
    LET n == VarintDecode(bs)
    IN  IF n.ok THEN DecodeStatEntries(n.rest, n.val, EmptyMap) ELSE Fail

\* n entries of a HashMap<BufferType, Vec<u8>>
RECURSIVE DecodeBufferEntries(_, _, _)
DecodeBufferEntries(bs, n, acc) ==
    IF n = 0 THEN Ok(acc, bs)
    ELSE LET k == DecodeEnum(BufferTypeVariants, bs)
             v == DecodeBytes(k.rest)
         IN  IF ~k.ok \/ ~v.ok THEN Fail
             ELSE DecodeBufferEntries(v.rest, n - 1, MapInsert(acc, k.val, v.val))

DecodeBuffers(bs) ==
    LET n == VarintDecode(bs)
    IN  IF n.ok THEN DecodeBufferEntries(n.rest, n.val, EmptyMap) ELSE Fail

\* a decoder that reads the buffers' lengths but keeps no contents
DecodeEmptyBuffers(bs) ==
    LET s == DecodeStatistics(bs)
        e == DecodeOption(s.rest)
        b == DecodeBuffers(e.rest)
    IN  IF ~s.ok \/ ~e.ok \/ ~b.ok THEN Fail
        ELSE Ok([statistics |-> s.val,
                 buffers |-> [k \in DOMAIN b.val |-> << >>],
                 error |-> e.val], b.rest)

\* impl Decode for FrameData
Decode(bs) ==
    LET s == DecodeStatistics(bs)
        e == DecodeOption(s.rest)
        b == DecodeBuffers(e.rest)
    IN  IF ~s.ok \/ ~e.ok \/ ~b.ok THEN Fail
        ELSE Ok([statistics |-> s.val, buffers |-> b.val, error |-> e.val], b.rest)

(***************************************************************************)
(* State.                                                                  *)
(***************************************************************************)
VARIABLES
    app,          \* the program that runs: "server", "client", or a pool driver
    registry,     \* PipelineRegistry: pipeline name -> the Pipeline registered (Option)
    bootPc,       \* main(): the next statement that touches the registry
    resolved,     \* the handles get_mut returned, with the Component that holds each
    pool,         \* PoolRegistry: buffer key -> the buffers that are Free
    cur,          \* Component -> the context its chain is working on (Option):
                  \* its id, its FrameData, and the report_error calls made on it
    pc,           \* Component -> position in its chain (0: waiting for a context)
    chan,         \* Component -> its inbound channel
    nextId,       \* contexts originated so far
    fault,        \* the panic that aborted the process (Option)
    received,     \* Component -> ids pushed on its inbound channel, in arrival order
    emitted,      \* Component -> ids that left it at the end of its chain, in order
    diverted,     \* contexts an OnErrorSwitch pushed to its target pipeline
    discarded,    \* contexts dropped at the end of a Component, with their buffers
    done,         \* processor executions: context, Component, position, outcome
    lastRedeemed, \* buffer key -> the buffer last returned to its pool (Option)
    fdIn,         \* serialization round trip: the FrameData to encode
    wire,         \* serialization round trip: the encoded bytes (Option)
    fdOut,        \* serialization round trip: the decoder's result (Option)
    before        \* pool driver: the last call, with the pool and context it started from (Option)

vars == << app, registry, bootPc, resolved, pool, cur, pc, chan, nextId, fault, received, emitted,
           diverted, discarded, done, lastRedeemed, fdIn, wire, fdOut, before >>

pipeVars == << app, registry, bootPc, resolved, pool, cur, pc, chan, nextId, fault, received, emitted,
               diverted, discarded, done, lastRedeemed, before >>

codecVars == << fdIn, wire, fdOut >>

(***************************************************************************)
(* server.rs / client.rs: pools.                                           *)
(***************************************************************************)
\* a configuration with pools of two buffers
PoolsOfTwo == 1 + 1

POOLS_SIZE == 1

\* a buffer of the pool registered for `key`
PoolBuffer(key, slot) == [pool |-> key, slot |-> slot]

\* a buffer allocated outside every pool (BytesMut::from in Decode)
HeapBuffer == [pool |-> "heap", slot |-> 0]

\* a registration that allocates one buffer too many
RegisterOneMore(key, capacity) == { PoolBuffer(key, i) : i \in 1..(capacity + 1) }

\* PoolRegistry::register(key, capacity, size): `capacity` Free buffers
Register(key, capacity) == { PoolBuffer(key, i) : i \in 1..capacity }

ServerPoolKeys ==
    { "CapturedRGBAFrameBuffer", "EncodedFrameBuffer", "SerializedFrameData" }

ClientPoolKeys == { "SerializedFrameData", "DecodedRGBAFrameBuffer" }

\* the pools main() registers
ServerPools == [k \in ServerPoolKeys |-> Register(k, POOLS_SIZE)]

ClientPools == [k \in ClientPoolKeys |-> Register(k, POOLS_SIZE)]

(***************************************************************************)
(* server.rs / client.rs: the chains of Processors.                        *)
(***************************************************************************)
Proc(op, key, src, dst) == [op |-> op, key |-> key, src |-> src, dst |-> dst]

Function == Proc("Function", "-", "-", "-")
Ticker == Proc("Ticker", "-", "-", "-")
Borrower(key) == Proc("Borrow", key, "-", "-")
Redeemer(key) == Proc("Redeem", key, "-", "-")
SoftRedeemer(key) == Proc("RedeemSoft", key, "-", "-")
TimestampAdder(stat) == Proc("TimestampAdder", "-", "-", stat)
TimestampDiffCalculator(src, dst) == Proc("TimestampDiff", "-", src, dst)
OnErrorSwitch(target) == Proc("OnErrorSwitch", target, "-", "-")
Capturer(key) == Proc("Capture", key, "-", "-")
CodecPusher(inKey) == Proc("CodecPush", inKey, "-", "-")
CodecPuller(outKey) == Proc("CodecPull", outKey, "-", "-")
BincodeSerializer(key) == Proc("Serialize", key, "-", "-")
BincodeDeserializer(key) == Proc("Deserialize", key, "-", "-")
SRTFrameSender(key) == Proc("Send", key, "-", "-")
SRTFrameReceiver(key) == Proc("Receive", key, "-", "-")
WinitRenderer(key) == Proc("Render", key, "-", "-")
ConsoleAverageStatsLogger == Proc("Log", "-", "-", "-")

\* an Error pipeline that forgets the encoded buffer
ServerErrorNoEncoded ==
    << Function, SoftRedeemer("CapturedRGBAFrameBuffer") >>

\* server.rs: Pipelines::Error
ServerError ==
    << Function,
       SoftRedeemer("CapturedRGBAFrameBuffer"),
       SoftRedeemer("EncodedFrameBuffer") >>

\* a first Component that does not stamp the capture time
ServerMain1NoCaptureTime ==
    << Ticker,
       Borrower("CapturedRGBAFrameBuffer"),
       Capturer("CapturedRGBAFrameBuffer"),
       TimestampAdder("EncodePushTime"),
       CodecPusher("CapturedRGBAFrameBuffer") >>

\* server.rs: Pipelines::Main, first Component
ServerMain1 ==
    << Ticker,
       Borrower("CapturedRGBAFrameBuffer"),
       TimestampAdder("CaptureTime"),
       Capturer("CapturedRGBAFrameBuffer"),
       TimestampAdder("EncodePushTime"),
       CodecPusher("CapturedRGBAFrameBuffer") >>

\* server.rs: Pipelines::Main, second Component
ServerMain2 ==
    << Redeemer("CapturedRGBAFrameBuffer"),
       Borrower("EncodedFrameBuffer"),
       CodecPuller("EncodedFrameBuffer"),
       TimestampDiffCalculator("EncodePushTime", "EncodeTime"),
       OnErrorSwitch("Error") >>

\* a third Component that redeems the captured frame's key once more
ServerMain3RedeemsCaptured ==
    << TimestampAdder("TransmissionStartTime"),
       Borrower("SerializedFrameData"),
       BincodeSerializer("SerializedFrameData"),
       Redeemer("CapturedRGBAFrameBuffer"),
       SRTFrameSender("SerializedFrameData"),
       TimestampDiffCalculator("TransmissionStartTime", "TransmissionTime"),
       Redeemer("SerializedFrameData") >>

\* server.rs: Pipelines::Main, third Component
ServerMain3 ==
    << TimestampAdder("TransmissionStartTime"),
       Borrower("SerializedFrameData"),
       BincodeSerializer("SerializedFrameData"),
       Redeemer("EncodedFrameBuffer"),
       SRTFrameSender("SerializedFrameData"),
       TimestampDiffCalculator("TransmissionStartTime", "TransmissionTime"),
       Redeemer("SerializedFrameData") >>

\* server.rs: Pipelines::Main, fourth Component
ServerMain4 == << ConsoleAverageStatsLogger >>

\* an Error pipeline whose redeemers were left strict
ClientErrorStrict ==
    << Function,
       Redeemer("SerializedFrameData"),
       Redeemer("DecodedRGBAFrameBuffer") >>

\* an Error pipeline that logs the dropped context and gives nothing back
ClientErrorLogsOnly == << Function >>

\* client.rs: Pipelines::Error
ClientError ==
    << Function,
       SoftRedeemer("SerializedFrameData"),
       SoftRedeemer("DecodedRGBAFrameBuffer") >>

\* client.rs: Pipelines::Main, first Component
ClientMain1 ==
    << Borrower("SerializedFrameData"),
       SRTFrameReceiver("SerializedFrameData"),
       BincodeDeserializer("SerializedFrameData"),
       TimestampDiffCalculator("CaptureTime", "ReceptionDelay"),
       Redeemer("SerializedFrameData"),
       TimestampAdder("DecodePushTime"),
       CodecPusher("EncodedFrameBuffer"),
       OnErrorSwitch("Error") >>

\* a second Component that gives the decoded buffer back before its switch
ClientMain2RedeemsFirst ==
    << Borrower("DecodedRGBAFrameBuffer"),
       CodecPuller("DecodedRGBAFrameBuffer"),
       Redeemer("DecodedRGBAFrameBuffer"),
       OnErrorSwitch("Error"),
       TimestampDiffCalculator("DecodePushTime", "DecodeTime"),
       TimestampDiffCalculator("CaptureTime", "FrameDelay") >>

\* client.rs: Pipelines::Main, second Component
ClientMain2 ==
    << Borrower("DecodedRGBAFrameBuffer"),
       CodecPuller("DecodedRGBAFrameBuffer"),
       OnErrorSwitch("Error"),
       TimestampDiffCalculator("DecodePushTime", "DecodeTime"),
       WinitRenderer("DecodedRGBAFrameBuffer"),
       TimestampDiffCalculator("CaptureTime", "FrameDelay"),
       Redeemer("DecodedRGBAFrameBuffer") >>

\* client.rs: Pipelines::Main, third Component
ClientMain3 == << ConsoleAverageStatsLogger >>

\* the Components of each program: "Error" is the Error pipeline's singleton,
\* "Main1".. are the Main pipeline's Components in link order
ServerChains ==
    [c \in { "Error", "Main1", "Main2", "Main3", "Main4" } |->
        CASE c = "Error" -> ServerError
          [] c = "Main1" -> ServerMain1
          [] c = "Main2" -> ServerMain2
          [] c = "Main3" -> ServerMain3
          [] c = "Main4" -> ServerMain4]

ClientChains ==
    [c \in { "Error", "Main1", "Main2", "Main3" } |->
        CASE c = "Error" -> ClientError
          [] c = "Main1" -> ClientMain1
          [] c = "Main2" -> ClientMain2
          [] c = "Main3" -> ClientMain3]

(***************************************************************************)
(* server.rs / client.rs: main() builds the PipelineRegistry.              *)
(***************************************************************************)
\* enum Pipelines
PipelineNames == { "Main", "Error" }

\* a Pipeline: its Components in link order, and whether it has an inbound handle
Pipeline(components, feedable) == [components |-> components, feedable |-> feedable]

\* the Pipeline expression each register! is given
PipelineOf(chains, name) ==
    IF name = "Error"
    THEN Pipeline(<< "Error" >>, TRUE)
    ELSE Pipeline(IF "Main4" \in DOMAIN chains
                  THEN << "Main1", "Main2", "Main3", "Main4" >>
                  ELSE << "Main1", "Main2", "Main3" >>, FALSE)

\* the statements of main() that touch the registry, in program order
RegisterStmt(name) == [op |-> "register", name |-> name, by |-> "-"]
GetMutStmt(name, by) == [op |-> "get_mut", name |-> name, by |-> by]
RunStmt == [op |-> "run", name |-> "-", by |-> "-"]

\* a main() that builds the Main pipeline before it registers Error
ServerBootMainFirst ==
    << GetMutStmt("Error", "Main2"), RegisterStmt("Main"),
       RegisterStmt("Error"), RunStmt >>

ServerBoot ==
    << RegisterStmt("Error"), GetMutStmt("Error", "Main2"),
       RegisterStmt("Main"), RunStmt >>

ClientBoot ==
    << RegisterStmt("Error"), GetMutStmt("Error", "Main1"),
       GetMutStmt("Error", "Main2"), RegisterStmt("Main"), RunStmt >>

(***************************************************************************)
(* The remotia Processors, as functions of the FrameData and the pools.    *)
(***************************************************************************)
\* borrower: takes the Free buffer b of the key's pool into the context
BorrowerProcess(fd, p, key, b) ==
    [frame |-> Push(fd, key, b), pool |-> [p EXCEPT ![key] = @ \ {b}]]

\* the buffers a borrower can take: it suspends while there is none
Borrowable(p, key) == p[key]

\* a strict redeemer that tolerates what only the soft one may
RedeemerAlwaysSoft(fd, p, key, soft) ==
    LET r == Pull(fd, key)
    IN  IF r.value = None
        THEN [frame |-> r.frame, pool |-> p, fault |-> None, returned |-> None]
        ELSE [frame |-> r.frame,
              pool |-> [p EXCEPT ![key] = @ \cup r.value],
              fault |-> None,
              returned |-> r.value]

\* redeemer: pulls the key's buffer out of the context and returns it to the
\* pool.  A missing buffer is a panic when strict and nothing when soft; a
\* buffer of another origin is a panic.
RedeemerProcess(fd, p, key, soft) ==
    LET r == Pull(fd, key)
    IN  IF r.value = None
        THEN IF soft
             THEN [frame |-> r.frame, pool |-> p, fault |-> None, returned |-> None]
             ELSE [frame |-> fd, pool |-> p, fault |-> Some("redeem: missing buffer"),
                   returned |-> None]
        ELSE IF Unwrap(r.value).pool # key
        THEN [frame |-> fd, pool |-> p, fault |-> Some("redeem: foreign buffer"),
              returned |-> None]
        ELSE [frame |-> r.frame,
              pool |-> [p EXCEPT ![key] = @ \cup r.value],
              fault |-> None,
              returned |-> r.value]

\* OnErrorSwitch: whether the context leaves for the target pipeline
SwitchDiverts(fd) == GetError(fd) # None

\* TimestampAdder
AddTimestamp(fd, stat, now) == Set(fd, stat, now)

\* TimestampDiffCalculator: dst = now - src
DiffTimestamp(fd, src, dst, now) == Set(fd, dst, now - Unwrap(Get(fd, src)))

\* the errors a codec push / pull can report (None: no error)
PushOutcomes == { None, Some("CodecError") }
PullOutcomes == { None, Some("NoFrame"), Some("CodecError") }

CodecProcess(fd, outcome) ==
    IF outcome = None THEN fd ELSE ReportError(fd, Unwrap(outcome))

\* the statistics a chain has set, and the pool buffers it holds, before the
\* processor at position n
RECURSIVE StatsBefore(_, _)
StatsBefore(chain, n) ==
    IF n <= 1 THEN {}
    ELSE StatsBefore(chain, n - 1)
         \cup (IF chain[n - 1].op \in { "TimestampAdder", "TimestampDiff" }
               THEN { chain[n - 1].dst } ELSE {})

RECURSIVE HeldBefore(_, _)
HeldBefore(chain, n) ==
    IF n <= 1 THEN {}
    ELSE IF chain[n - 1].op = "Borrow"
         THEN HeldBefore(chain, n - 1) \cup { chain[n - 1].key }
    ELSE IF chain[n - 1].op \in { "Redeem", "RedeemSoft" }
         THEN HeldBefore(chain, n - 1) \ { chain[n - 1].key }
    ELSE HeldBefore(chain, n - 1)

\* the server's Main pipeline as one chain, and its serializer's position
ServerMain == ServerMain1 \o ServerMain2 \o ServerMain3
SerializerAt == CHOOSE i \in DOMAIN ServerMain : ServerMain[i].op = "Serialize"

\* what the server's serializer encodes: the context without the buffer it
\* encodes into; timestamps read t, durations 0
WireFrame(t) ==
    [statistics |->
        [k \in StatsBefore(ServerMain, SerializerAt) |->
            IF k \in { "EncodeTime" } THEN 0 ELSE t],
     buffers |->
        [k \in HeldBefore(ServerMain, SerializerAt)
                  \ { ServerMain[SerializerAt].key } |-> HeapBuffer],
     error |-> None]

\* deserializer: the decoded FrameData replaces the context and takes over the
\* buffer the bytes were read from
DeserializerProcess(fd, key, decoded) ==
    LET r == Pull(fd, key) IN Push(decoded, key, Unwrap(r.value))

(***************************************************************************)
(* The Component task: take a context, run the chain on it, push what is   *)
(* left to the next Component.                                             *)
(***************************************************************************)
Chains == IF app = "server" THEN ServerChains ELSE ClientChains

Components == DOMAIN Chains

\* Pipeline::link order: the Component a Component's outbound channel feeds
Downstream(c) ==
    CASE c = "Main1" -> Some("Main2")
      [] c = "Main2" -> Some("Main3")
      [] c = "Main3" -> IF "Main4" \in Components THEN Some("Main4") ELSE None
      [] OTHER -> None

\* the first Component of Main has no inbound channel: it originates contexts
IsSource(c) == c = "Main1"

\* main() as it builds the registry
Boot == IF app = "server" THEN ServerBoot ELSE ClientBoot

\* pipelines.run() was called: the Component tasks are started
Running == bootPc > Len(Boot)

AtBoot(op) ==
    /\ fault = None
    /\ bootPc \in DOMAIN Boot
    /\ Boot[bootPc].op = op

\* PipelineRegistry::register: a name is registered once
RegistryRegister(reg, name, pipeline) ==
    IF reg[name] # None
    THEN [registry |-> reg, fault |-> Some("register: name already registered")]
    ELSE [registry |-> [reg EXCEPT ![name] = Some(pipeline)], fault |-> None]

\* PipelineRegistry::get_mut: the Pipeline registered under the name
RegistryGetMut(reg, name) == reg[name]

\* register!(pipelines, name, pipeline)
DoRegister ==
    /\ AtBoot("register")
    /\ LET r == RegistryRegister(registry, Boot[bootPc].name,
                                 PipelineOf(Chains, Boot[bootPc].name))
       IN  /\ registry' = r.registry
           /\ fault' = r.fault
    /\ bootPc' = bootPc + 1
    /\ UNCHANGED << app, resolved, pool, cur, pc, chan, nextId, received, emitted,
                    diverted, discarded, done, lastRedeemed, before >>

\* OnErrorSwitch::new(pipelines.get_mut(&name)) while a Component is built
DoGetMut ==
    /\ AtBoot("get_mut")
    /\ LET h == RegistryGetMut(registry, Boot[bootPc].name)
       IN  IF h = None
           THEN /\ fault' = Some("get_mut: no such pipeline")
                /\ UNCHANGED resolved
           ELSE /\ resolved' = resolved \cup
                      { [by |-> Boot[bootPc].by, name |-> Boot[bootPc].name,
                         handle |-> Unwrap(h)] }
                /\ UNCHANGED fault
    /\ bootPc' = bootPc + 1
    /\ UNCHANGED << app, registry, pool, cur, pc, chan, nextId, received, emitted,
                    diverted, discarded, done, lastRedeemed, before >>

\* pipelines.run()
DoRun ==
    /\ AtBoot("run")
    /\ bootPc' = bootPc + 1
    /\ UNCHANGED << app, registry, resolved, pool, cur, pc, chan, nextId, fault,
                    received, emitted, diverted, discarded, done, lastRedeemed,
                    before >>

\* the inbound Component of the Pipeline whose handle c's OnErrorSwitch holds
SwitchTarget(c) ==
    Head((CHOOSE r \in resolved : r.by = c).handle.components)

Ctx(c) == Unwrap(cur[c])
Frame(c) == Ctx(c).frame
Here(c) == Chains[c][pc[c]]

At(c, op) ==
    /\ Running
    /\ fault = None
    /\ cur[c] # None
    /\ pc[c] \in 1..Len(Chains[c])
    /\ Here(c).op = op

Executed(c, eff) == [id |-> Ctx(c).id, comp |-> c, idx |-> pc[c], eff |-> eff]

\* the processor returned Some(fd): the chain goes on
Continue(c, fd, eff) ==
    /\ cur' = [cur EXCEPT ![c] = Some([id |-> Ctx(c).id, frame |-> fd,
                                        reports |-> Ctx(c).reports])]
    /\ pc' = [pc EXCEPT ![c] = @ + 1]
    /\ done' = done \cup { Executed(c, eff) }

\* the processor called report_error and returned Some(fd): the chain goes on
ContinueReported(c, fd) ==
    /\ cur' = [cur EXCEPT ![c] = Some([id |-> Ctx(c).id, frame |-> fd,
                                        reports |-> Ctx(c).reports + 1])]
    /\ pc' = [pc EXCEPT ![c] = @ + 1]
    /\ done' = done \cup { Executed(c, "ok") }

\* the processor panicked: the process aborts
Panic(c, why) ==
    /\ fault' = why
    /\ done' = done \cup { Executed(c, "panic") }
    /\ UNCHANGED << app, registry, bootPc, resolved, pool, cur, pc, chan, nextId, received, emitted,
                    diverted, discarded, lastRedeemed, before >>

\* a channel delivers in arrival order
ChannelSend(q, x) == Append(q, x)

\* a receive that takes the latest arrival
ChannelRecvLast(q) == [value |-> q[Len(q)], rest |-> SubSeq(q, 1, Len(q) - 1)]

ChannelRecv(q) == [value |-> Head(q), rest |-> Tail(q)]

Originate(c) ==
    /\ Running
    /\ fault = None
    /\ IsSource(c)
    /\ pc[c] = 0
    /\ nextId < MaxFrames
    /\ nextId' = nextId + 1
    /\ cur' = [cur EXCEPT ![c] = Some([id |-> nextId + 1, frame |-> DefaultFrameData,
                                        reports |-> 0])]
    /\ pc' = [pc EXCEPT ![c] = 1]
    /\ UNCHANGED << app, registry, bootPc, resolved, pool, chan, fault, received, emitted, diverted,
                    discarded, done, lastRedeemed, before >>

Receive(c) ==
    /\ Running
    /\ fault = None
    /\ ~IsSource(c)
    /\ pc[c] = 0
    /\ chan[c] # << >>
    /\ cur' = [cur EXCEPT ![c] = Some(ChannelRecv(chan[c]).value)]
    /\ chan' = [chan EXCEPT ![c] = ChannelRecv(@).rest]
    /\ pc' = [pc EXCEPT ![c] = 1]
    /\ UNCHANGED << app, registry, bootPc, resolved, pool, nextId, fault, received, emitted, diverted, discarded,
                    done, lastRedeemed, before >>

\* the chain is through: push the context on the outbound channel (suspends
\* while the channel is full)
Emit(c) ==
    /\ Running
    /\ fault = None
    /\ cur[c] # None
    /\ pc[c] = Len(Chains[c]) + 1
    /\ Downstream(c) # None
    /\ LET d == Unwrap(Downstream(c))
       IN  /\ Len(chan[d]) < ChanCap
           /\ chan' = [chan EXCEPT ![d] = ChannelSend(@, Ctx(c))]
           /\ received' = [received EXCEPT ![d] = Append(@, Ctx(c).id)]
    /\ emitted' = [emitted EXCEPT ![c] = Append(@, Ctx(c).id)]
    /\ cur' = [cur EXCEPT ![c] = None]
    /\ pc' = [pc EXCEPT ![c] = 0]
    /\ UNCHANGED << app, registry, bootPc, resolved, pool, nextId, fault, diverted, discarded,
                    done, lastRedeemed, before >>

\* the chain is through and there is no outbound channel: the context is dropped
Discard(c) ==
    /\ Running
    /\ fault = None
    /\ cur[c] # None
    /\ pc[c] = Len(Chains[c]) + 1
    /\ Downstream(c) = None
    /\ discarded' = discarded \cup { [id |-> Ctx(c).id, at |-> c, buffers |-> Frame(c).buffers] }
    /\ emitted' = [emitted EXCEPT ![c] = Append(@, Ctx(c).id)]
    /\ cur' = [cur EXCEPT ![c] = None]
    /\ pc' = [pc EXCEPT ![c] = 0]
    /\ UNCHANGED << app, registry, bootPc, resolved, pool, chan, nextId, fault, received,
                    diverted, done, lastRedeemed, before >>

DoBorrow(c) ==
    /\ At(c, "Borrow")
    /\ \E b \in Borrowable(pool, Here(c).key) :
          LET r == BorrowerProcess(Frame(c), pool, Here(c).key, b)
          IN  /\ pool' = r.pool
              /\ Continue(c, r.frame, "borrowed")
    /\ UNCHANGED << app, registry, bootPc, resolved, chan, nextId, fault, received, emitted, diverted,
                    discarded, lastRedeemed, before >>

DoRedeem(c) ==
    /\ At(c, "Redeem") \/ At(c, "RedeemSoft")
    /\ LET r == RedeemerProcess(Frame(c), pool, Here(c).key, Here(c).op = "RedeemSoft")
       IN  IF r.fault # None
           THEN Panic(c, r.fault)
           ELSE /\ pool' = r.pool
                /\ lastRedeemed' =
                      IF r.returned = None THEN lastRedeemed
                      ELSE [lastRedeemed EXCEPT ![Here(c).key] = r.returned]
                /\ Continue(c, r.frame, IF r.returned = None THEN "noop" ELSE "redeemed")
                /\ UNCHANGED << app, registry, bootPc, resolved, chan, nextId, fault, received, emitted,
                                diverted, discarded, before >>

\* the time a timestamp processor reads.  The pipeline model does not follow
\* the wall clock: every read during a run returns the time the run started at.
Now == 0

DoTimestampAdder(c) ==
    /\ At(c, "TimestampAdder")
    /\ Continue(c, AddTimestamp(Frame(c), Here(c).dst, Now), "ok")
    /\ UNCHANGED << app, registry, bootPc, resolved, pool, chan, nextId, fault, received, emitted,
                    diverted, discarded, lastRedeemed, before >>

DoTimestampDiff(c) ==
    /\ At(c, "TimestampDiff")
    /\ IF Get(Frame(c), Here(c).src) = None
       THEN Panic(c, Some("diff: missing source"))
       ELSE /\ Continue(c, DiffTimestamp(Frame(c), Here(c).src, Here(c).dst, Now), "ok")
            /\ UNCHANGED << app, registry, bootPc, resolved, pool, chan, nextId, fault, received, emitted,
                            diverted, discarded, lastRedeemed, before >>

\* OnErrorSwitch: an errored context is pushed to the target pipeline (the push
\* suspends while its inbound channel is full) and the chain ends with None
DoSwitch(c) ==
    /\ At(c, "OnErrorSwitch")
    /\ IF SwitchDiverts(Frame(c))
       THEN /\ Len(chan[SwitchTarget(c)]) < ChanCap
            /\ chan' = [chan EXCEPT ![SwitchTarget(c)] = ChannelSend(@, Ctx(c))]
            /\ received' = [received EXCEPT ![SwitchTarget(c)] = Append(@, Ctx(c).id)]
            /\ diverted' = diverted \cup { [id |-> Ctx(c).id, by |-> c] }
            /\ cur' = [cur EXCEPT ![c] = None]
            /\ pc' = [pc EXCEPT ![c] = 0]
            /\ done' = done \cup { Executed(c, "diverted") }
       ELSE /\ Continue(c, Frame(c), "passed")
            /\ UNCHANGED << chan, received, diverted >>
    /\ UNCHANGED << app, registry, bootPc, resolved, pool, nextId, fault, emitted, discarded,
                    lastRedeemed, before >>

\* codec push: reads the input buffer, may report an error
DoCodecPush(c) ==
    /\ At(c, "CodecPush")
    /\ IF GetRef(Frame(c), Here(c).key) = None
       THEN Panic(c, Some("codec: missing buffer"))
       ELSE /\ \E o \in PushOutcomes :
                  IF o = None
                  THEN Continue(c, CodecProcess(Frame(c), o), "ok")
                  ELSE ContinueReported(c, CodecProcess(Frame(c), o))
            /\ UNCHANGED << app, registry, bootPc, resolved, pool, chan, nextId, fault, received, emitted,
                            diverted, discarded, lastRedeemed, before >>

\* codec pull: writes the output buffer, may report an error
DoCodecPull(c) ==
    /\ At(c, "CodecPull")
    /\ IF GetRef(Frame(c), Here(c).key) = None
       THEN Panic(c, Some("codec: missing buffer"))
       ELSE /\ \E o \in PullOutcomes :
                  IF o = None
                  THEN Continue(c, CodecProcess(Frame(c), o), "ok")
                  ELSE ContinueReported(c, CodecProcess(Frame(c), o))
            /\ UNCHANGED << app, registry, bootPc, resolved, pool, chan, nextId, fault, received, emitted,
                            diverted, discarded, lastRedeemed, before >>

\* capture, serialize, send, receive, render: work on the key's buffer, whose
\* contents the pipeline model does not follow
DoBufferIO(c) ==
    /\ \/ At(c, "Capture") \/ At(c, "Serialize") \/ At(c, "Send")
       \/ At(c, "Receive") \/ At(c, "Render")
    /\ IF GetRef(Frame(c), Here(c).key) = None
       THEN Panic(c, Some("io: missing buffer"))
       ELSE /\ Continue(c, Frame(c), "ok")
            /\ UNCHANGED << app, registry, bootPc, resolved, pool, chan, nextId, fault, received, emitted,
                            diverted, discarded, lastRedeemed, before >>

DoDeserialize(c) ==
    /\ At(c, "Deserialize")
    /\ IF GetRef(Frame(c), Here(c).key) = None
       THEN Panic(c, Some("io: missing buffer"))
       ELSE /\ \E t \in 0..Now :
                  Continue(c, DeserializerProcess(Frame(c), Here(c).key, WireFrame(t)), "ok")
            /\ UNCHANGED << app, registry, bootPc, resolved, pool, chan, nextId, fault, received, emitted,
                            diverted, discarded, lastRedeemed, before >>

\* ticker, logging function, statistics logger: the context passes unchanged
DoPass(c) ==
    /\ At(c, "Ticker") \/ At(c, "Function") \/ At(c, "Log")
    /\ Continue(c, Frame(c), "ok")
    /\ UNCHANGED << app, registry, bootPc, resolved, pool, chan, nextId, fault, received, emitted,
                    diverted, discarded, lastRedeemed, before >>

\* the state pipelines.run() starts from
InitPipelines(a, chains, pools) ==
    /\ app = a
    /\ registry = [n \in PipelineNames |-> None]
    /\ bootPc = 1
    /\ resolved = {}
    /\ pool = pools
    /\ cur = [c \in DOMAIN chains |-> None]
    /\ pc = [c \in DOMAIN chains |-> 0]
    /\ chan = [c \in DOMAIN chains |-> << >>]
    /\ nextId = 0
    /\ fault = None
    /\ received = [c \in DOMAIN chains |-> << >>]
    /\ emitted = [c \in DOMAIN chains |-> << >>]
    /\ diverted = {}
    /\ discarded = {}
    /\ done = {}
    /\ lastRedeemed = [k \in DOMAIN pools |-> None]
    /\ before = None

CodecIdle ==
    /\ fdIn = DefaultFrameData
    /\ wire = None
    /\ fdOut = None

Init ==
    /\ \/ InitPipelines("server", ServerChains, ServerPools)
       \/ InitPipelines("client", ClientChains, ClientPools)
    /\ CodecIdle

Next ==
    \/ DoRegister /\ UNCHANGED codecVars
    \/ DoGetMut /\ UNCHANGED codecVars
    \/ DoRun /\ UNCHANGED codecVars
    \/ \E c \in Components : Originate(c) /\ UNCHANGED codecVars
    \/ \E c \in Components : Receive(c) /\ UNCHANGED codecVars
    \/ \E c \in Components : Emit(c) /\ UNCHANGED codecVars
    \/ \E c \in Components : Discard(c) /\ UNCHANGED codecVars
    \/ \E c \in Components : DoBorrow(c) /\ UNCHANGED codecVars
    \/ \E c \in Components : DoRedeem(c) /\ UNCHANGED codecVars
    \/ \E c \in Components : DoTimestampAdder(c) /\ UNCHANGED codecVars
    \/ \E c \in Components : DoTimestampDiff(c) /\ UNCHANGED codecVars
    \/ \E c \in Components : DoSwitch(c) /\ UNCHANGED codecVars
    \/ \E c \in Components : DoCodecPush(c) /\ UNCHANGED codecVars
    \/ \E c \in Components : DoCodecPull(c) /\ UNCHANGED codecVars
    \/ \E c \in Components : DoBufferIO(c) /\ UNCHANGED codecVars
    \/ \E c \in Components : DoDeserialize(c) /\ UNCHANGED codecVars
    \/ \E c \in Components : DoPass(c) /\ UNCHANGED codecVars

Spec == Init /\ [][Next]_vars

(***************************************************************************)
(* Serialization round trip: a FrameData is encoded under some iteration   *)
(* order of its two maps, and the bytes are decoded.                       *)
(***************************************************************************)
\* the keys, values and bytes the round trip draws from: both ends of each
\* enumeration, and integers of every varint width up to 4 bytes
RoundTripStats == { "CaptureTime", "EncodeTime", "ReceptionDelay" }
RoundTripBuffers == { "YUVFrameBuffer", "DecodedRGBAFrameBuffer" }
RoundTripValues == { 250, 251, 70000 }
RoundTripBytes == { 0, 255 }

\* the maps with at most n keys of K and values in V
MapsUpTo(K, V, n) ==
    UNION { [D -> V] : D \in { D \in SUBSET K : Cardinality(D) <= n } }

SeqsUpTo(S, n) == UNION { [1..m -> S] : m \in 0..n }

\* the orders a map's iteration can produce: the enumerations of its keys
Orders(m) ==
    { o \in [1..Cardinality(DOMAIN m) -> DOMAIN m] :
        \A i, j \in DOMAIN o : i # j => o[i] # o[j] }

RoundTripInputs ==
    [statistics : MapsUpTo(RoundTripStats, RoundTripValues, MaxEntries),
     buffers : MapsUpTo(RoundTripBuffers, SeqsUpTo(RoundTripBytes, MaxBufLen), MaxEntries),
     error : { None } \cup { Some(e) : e \in Range(ErrorVariants) }]

PipelinesIdle ==
    /\ app = "codec"
    /\ registry = EmptyMap
    /\ bootPc = 0
    /\ resolved = {}
    /\ pool = EmptyMap
    /\ cur = EmptyMap
    /\ pc = EmptyMap
    /\ chan = EmptyMap
    /\ nextId = 0
    /\ fault = None
    /\ received = EmptyMap
    /\ emitted = EmptyMap
    /\ diverted = {}
    /\ discarded = {}
    /\ done = {}
    /\ lastRedeemed = EmptyMap
    /\ before = None

InitCodec ==
    /\ PipelinesIdle
    /\ fdIn \in RoundTripInputs
    /\ wire = None
    /\ fdOut = None

\* bincode::encode: FrameData::encode under the maps' iteration orders
DoEncode ==
    /\ wire = None
    /\ \E so \in Orders(fdIn.statistics), bo \in Orders(fdIn.buffers) :
          wire' = Some(Encode(fdIn, so, bo))
    /\ UNCHANGED << fdIn, fdOut >>
    /\ UNCHANGED pipeVars

\* bincode::decode: FrameData::decode of the encoded bytes
DoDecode ==
    /\ wire # None
    /\ fdOut = None
    /\ fdOut' = Some(Decode(Unwrap(wire)))
    /\ UNCHANGED << fdIn, wire >>
    /\ UNCHANGED pipeVars

NextCodec == DoEncode \/ DoDecode

SpecCodec == InitCodec /\ [][NextCodec]_vars

(***************************************************************************)
(* Pool driver: two callers, each holding one context, call the borrower   *)
(* and the redeemers of the client's pools in any order, on contexts that  *)
(* may or may not hold the key, or hold under it a buffer that was decoded *)
(* rather than borrowed.                                                   *)
(***************************************************************************)
Callers == { "A", "B" }

CallerId(c) == IF c = "A" THEN 1 ELSE 2

InitPool ==
    /\ app = "pools"
    /\ registry = EmptyMap
    /\ bootPc = 0
    /\ resolved = {}
    /\ pool = ClientPools
    /\ cur = [c \in Callers |-> Some([id |-> CallerId(c), frame |-> DefaultFrameData,
                                    reports |-> 0])]
    /\ pc = [c \in Callers |-> 0]
    /\ chan = [c \in Callers |-> << >>]
    /\ nextId = 0
    /\ fault = None
    /\ received = [c \in Callers |-> << >>]
    /\ emitted = [c \in Callers |-> << >>]
    /\ diverted = {}
    /\ discarded = {}
    /\ done = {}
    /\ lastRedeemed = [k \in DOMAIN ClientPools |-> None]
    /\ before = None
    /\ CodecIdle

\* what a call started from
Call(c, op, key) ==
    [op |-> op, key |-> key, caller |-> c, pool |-> pool, frame |-> Frame(c)]

Returns(c, fd) ==
    cur' = [cur EXCEPT ![c] = Some([id |-> Ctx(c).id, frame |-> fd,
                                    reports |-> Ctx(c).reports])]

CallBorrow(c, key) ==
    /\ fault = None
    /\ \E b \in Borrowable(pool, key) :
          LET r == BorrowerProcess(Frame(c), pool, key, b)
          IN  /\ pool' = r.pool
              /\ Returns(c, r.frame)
    /\ before' = Some(Call(c, "Borrow", key))
    /\ UNCHANGED << app, registry, bootPc, resolved, pc, chan, nextId, fault, received, emitted, diverted,
                    discarded, done, lastRedeemed >>

CallRedeem(c, key, soft) ==
    /\ fault = None
    /\ LET r == RedeemerProcess(Frame(c), pool, key, soft)
       IN  /\ fault' = r.fault
           /\ pool' = r.pool
           /\ Returns(c, r.frame)
           /\ lastRedeemed' =
                 IF r.returned = None THEN lastRedeemed
                 ELSE [lastRedeemed EXCEPT ![key] = r.returned]
    /\ before' = Some(Call(c, IF soft THEN "RedeemSoft" ELSE "Redeem", key))
    /\ UNCHANGED << app, registry, bootPc, resolved, pc, chan, nextId, received, emitted, diverted, discarded,
                    done >>

\* the caller's context comes out of a deserializer holding a decoded buffer
CallDecoded(c, key) ==
    /\ fault = None
    /\ GetRef(Frame(c), key) = None
    /\ Returns(c, Push(Frame(c), key, HeapBuffer))
    /\ before' = Some(Call(c, "Decoded", key))
    /\ UNCHANGED << app, registry, bootPc, resolved, pool, pc, chan, nextId, fault, received, emitted, diverted,
                    discarded, done, lastRedeemed >>

NextPool ==
    \/ \E c \in Callers, key \in DOMAIN pool :
          CallBorrow(c, key) /\ UNCHANGED codecVars
    \/ \E c \in Callers, key \in DOMAIN pool :
          CallRedeem(c, key, FALSE) /\ UNCHANGED codecVars
    \/ \E c \in Callers, key \in DOMAIN pool :
          CallRedeem(c, key, TRUE) /\ UNCHANGED codecVars
    \/ \E c \in Callers, key \in DOMAIN pool :
          CallDecoded(c, key) /\ UNCHANGED codecVars

SpecPool == InitPool /\ [][NextPool]_vars

(***************************************************************************)
(* What the claims speak of.                                               *)
(***************************************************************************)
\* the contexts alive: one per busy Component, and those waiting in channels
Live ==
    UNION { cur[c] : c \in DOMAIN cur }
    \cup UNION { Range(chan[c]) : c \in DOMAIN chan }

\* (context, key) pairs under which a live context holds a buffer of pool k
Holdings(k) ==
    { h \in { << x.id, key >> : x \in Live, key \in Range(BufferTypeVariants)
                                                   \cup DOMAIN pool } :
        \E x \in Live :
            /\ x.id = h[1]
            /\ h[2] \in DOMAIN x.frame.buffers
            /\ x.frame.buffers[h[2]].pool = k }

\* the slots of pool k that are Borrowed: held by a live context
BorrowedSlots(k) ==
    { b \in UNION { Range(x.frame.buffers) : x \in Live } : b.pool = k }

\* calls of pool k's borrower / redeemers that took / returned a buffer
Borrows(k) ==
    Cardinality({ e \in done : e.eff = "borrowed" /\ Chains[e.comp][e.idx].key = k })

Redeems(k) ==
    Cardinality({ e \in done : e.eff = "redeemed" /\ Chains[e.comp][e.idx].key = k })

\* every Component name of either program
AllComponents == DOMAIN ServerChains \cup DOMAIN ClientChains

\* Component c takes a step of its chain
Steps(c) == pc'[c] # pc[c] \/ cur'[c] # cur[c] \/ fault' # fault

\* position of a Component along the Main pipeline (the Error pipeline: 0)
Stage(c) ==
    CASE c = "Main1" -> 1 [] c = "Main2" -> 2 [] c = "Main3" -> 3
      [] c = "Main4" -> 4 [] OTHER -> 0

\* s keeps the relative order its elements have in t
InOrderOf(s, t) ==
    /\ Range(s) \subseteq Range(t)
    /\ \A i, j \in DOMAIN s :
          i < j =>
            \E m, n \in DOMAIN t : m < n /\ t[m] = s[i] /\ t[n] = s[j]

(***************************************************************************)
(* C1: in every reachable state of the server's and the client's           *)
(* pipelines, each registered pool has at most POOLS_SIZE Borrowed slots.  *)
(***************************************************************************)
PoolBound ==
    \A k \in DOMAIN pool : Cardinality(BorrowedSlots(k)) <= POOLS_SIZE

\* a pool is exhausted, a borrower of its key is waiting, and the Error
\* pipeline has already given a buffer back through a soft redeemer
PoolBoundWitness ==
    /\ \E c \in Components :
          /\ At(c, "Borrow")
          /\ pool[Here(c).key] = {}
          /\ Cardinality(BorrowedSlots(Here(c).key)) = POOLS_SIZE
    /\ \E e \in done : e.comp = "Error" /\ e.eff = "redeemed"

(***************************************************************************)
(* Scheduling: a borrower suspended on an exhausted pool is woken when a   *)
(* buffer is returned, so a borrow that stays possible is eventually taken. *)
(***************************************************************************)
BorrowFairness ==
    \A c \in AllComponents :
        WF_vars(c \in Components /\ DoBorrow(c) /\ UNCHANGED codecVars)

FairBorrowSpec == Spec /\ BorrowFairness

\* the (Component, key) pairs of the borrowers either program appends
Borrowers ==
    { b \in AllComponents \X (ServerPoolKeys \cup ClientPoolKeys) :
        \E chains \in { ServerChains, ClientChains } :
            /\ b[1] \in DOMAIN chains
            /\ \E i \in DOMAIN chains[b[1]] :
                  chains[b[1]][i].op = "Borrow" /\ chains[b[1]][i].key = b[2] }

(***************************************************************************)
(* C2: on a pool of capacity 1, a borrow issued while the pool's buffer is *)
(* Borrowed does not complete before a redeem of the key (the n+1-th       *)
(* borrow needs n redeems, and the borrower has no step while the buffer   *)
(* is out); once the buffer is back the waiting borrow completes, and the  *)
(* buffer it receives is the one that was redeemed.                        *)
(***************************************************************************)
\* Component c waits at the borrower of key k
WaitsFor(c, k) == c \in Components /\ At(c, "Borrow") /\ Here(c).key = k

\* Component c has got past its borrower of key k, holding the buffer
HasBorrowed(c, k) ==
    /\ c \in Components
    /\ cur[c] # None
    /\ pc[c] > 0
    /\ \E i \in 1..(pc[c] - 1) : Chains[c][i].op = "Borrow" /\ Chains[c][i].key = k
    /\ GetRef(Frame(c), k) # None

BorrowWaitsForRedeem ==
    \A k \in DOMAIN pool :
        /\ Borrows(k) <= Redeems(k) + 1
        /\ \A c \in Components :
              WaitsFor(c, k) /\ BorrowedSlots(k) # {} =>
                  ~ENABLED (DoBorrow(c) /\ UNCHANGED codecVars)
        /\ Redeems(k) > 0 =>
              \A x \in Live : \A key \in DOMAIN x.frame.buffers :
                  x.frame.buffers[key].pool = k =>
                      Some(x.frame.buffers[key]) = lastRedeemed[k]

BorrowAfterRedeem ==
    /\ []BorrowWaitsForRedeem
    /\ \A b \in Borrowers :
          (WaitsFor(b[1], b[2]) /\ pool[b[2]] # {}) ~> HasBorrowed(b[1], b[2])

\* the pool's buffer was borrowed, redeemed, and borrowed again by a borrower
\* that had been waiting for it
BorrowAfterRedeemWitness ==
    \E c \in Components, k \in DOMAIN pool :
        /\ HasBorrowed(c, k)
        /\ Borrows(k) = 2
        /\ Redeems(k) = 1
        /\ lastRedeemed[k] = GetRef(Frame(c), k)

(***************************************************************************)
(* C4: a context whose error slot is set when its Component's              *)
(* OnErrorSwitch runs is pushed on the Error pipeline's inbound channel    *)
(* and the chain ends for it; a diverted context is never emitted by the   *)
(* Component that diverted it, no later Processor of that Component and no *)
(* Component further down the Main pipeline runs on it.                    *)
(***************************************************************************)
\* the OnErrorSwitch of Component c runs on an errored context
SwitchOnErrored(c) ==
    /\ c \in Components
    /\ At(c, "OnErrorSwitch")
    /\ Frame(c).error # None
    /\ Steps(c)

DivertedStaysOut ==
    \A d \in diverted :
        /\ d.id \notin Range(emitted[d.by])
        /\ d.id \in Range(received["Error"])
        /\ \A c \in Components :
              Stage(c) > 0 =>
                /\ \A x \in cur[c] \cup Range(chan[c]) : x.id # d.id
                /\ Stage(c) > Stage(d.by) => d.id \notin Range(received[c])
        /\ \A e \in done :
              e.id = d.id /\ e.comp # "Error" =>
                /\ Stage(e.comp) <= Stage(d.by)
                /\ e.comp = d.by => Chains[e.comp][e.idx].op # "OnErrorSwitch"
                                     \/ e.eff = "diverted"
                /\ e.comp = d.by =>
                      \A f \in done :
                          f.id = d.id /\ f.comp = d.by /\ f.eff = "diverted"
                              => e.idx <= f.idx

ErroredIsDiverted ==
    /\ []DivertedStaysOut
    /\ [][\A c \in AllComponents :
            SwitchOnErrored(c) =>
                /\ chan'["Error"] = Append(chan["Error"], Ctx(c))
                /\ cur'[c] = None
                /\ emitted'[c] = emitted[c]
                /\ \A o \in Components \ { "Error" } : chan'[o] = chan[o]]_vars

\* a context reported CodecError, was diverted by the second Component's
\* switch, and the Error pipeline has taken it up
ErroredIsDivertedWitness ==
    \E d \in diverted :
        /\ d.by = "Main2"
        /\ cur["Error"] # None
        /\ Ctx("Error").id = d.id
        /\ Frame("Error").error = Some("CodecError")
        /\ pc["Error"] > 1

(***************************************************************************)
(* C5: when an OnErrorSwitch runs on a context whose error slot is None,   *)
(* the context goes on to the next Processor with statistics, buffers and  *)
(* error unchanged, and nothing is pushed to the Error pipeline.           *)
(***************************************************************************)
\* the OnErrorSwitch of Component c runs on a healthy context
SwitchOnHealthy(c) ==
    /\ c \in Components
    /\ At(c, "OnErrorSwitch")
    /\ Frame(c).error = None
    /\ Steps(c)

HealthyPassesUnchanged ==
    [][\A c \in AllComponents :
          SwitchOnHealthy(c) =>
              /\ cur'[c] = cur[c]
              /\ pc'[c] = pc[c] + 1
              /\ chan' = chan
              /\ received' = received
              /\ diverted' = diverted
              /\ fault' = None]_vars

\* a context holding a buffer and statistics has passed a switch
HealthyPassesUnchangedWitness ==
    \E c \in Components :
        /\ cur[c] # None
        /\ pc[c] > 1
        /\ pc[c] <= Len(Chains[c]) + 1
        /\ Chains[c][pc[c] - 1].op = "OnErrorSwitch"
        /\ Frame(c).error = None
        /\ DOMAIN Frame(c).buffers # {}
        /\ DOMAIN Frame(c).statistics # {}

(***************************************************************************)
(* C6: a context dropped at the end of the terminal Main Component or of   *)
(* the Error pipeline's Component holds no buffer of a pool, and every     *)
(* slot of every pool is Free or held by a live context, in the server and *)
(* in the client.                                                          *)
(***************************************************************************)
NoBufferLost ==
    /\ \A d \in discarded : \A key \in DOMAIN d.buffers : d.buffers[key].pool \notin DOMAIN pool
    /\ \A k \in DOMAIN pool :
          \A b \in Register(k, POOLS_SIZE) : b \in pool[k] \/ b \in BorrowedSlots(k)

\* the server has dropped one context after the statistics logger and one,
\* diverted while holding the encoded buffer, at the end of the Error pipeline
NoBufferLostWitness ==
    /\ app = "server"
    /\ \E d \in discarded : d.at = "Main4"
    /\ \E d \in discarded :
          /\ d.at = "Error"
          /\ \E e \in done : e.id = d.id /\ e.comp = "Error" /\ e.eff = "redeemed"

(***************************************************************************)
(* C7: a pool buffer is never held twice (by two contexts, or under two    *)
(* keys), a buffer that is Free is held by no context, and a context is in *)
(* one place only: borrow and redeem hand each slot to one owner.          *)
(***************************************************************************)
ExclusiveOwnership ==
    /\ \A k \in DOMAIN pool :
          /\ Cardinality(Holdings(k)) = Cardinality(BorrowedSlots(k))
          /\ pool[k] \cap BorrowedSlots(k) = {}
    /\ \A c, o \in Components :
          /\ c # o /\ cur[c] # None /\ cur[o] # None => Ctx(c).id # Ctx(o).id
          /\ \A i \in DOMAIN chan[o] :
                /\ cur[c] # None => Ctx(c).id # chan[o][i].id
                /\ \A j \in DOMAIN chan[c] :
                      (c # o \/ i # j) => chan[c][j].id # chan[o][i].id

\* two Components work on two contexts at once, one holding a buffer that
\* an earlier context had borrowed and given back
ExclusiveOwnershipWitness ==
    \E c, o \in Components, k \in DOMAIN pool :
        /\ c # o
        /\ HasBorrowed(c, k)
        /\ Redeems(k) > 0
        /\ cur[o] # None
        /\ DOMAIN Frame(o).buffers # {}

(***************************************************************************)
(* C8: the contexts a Component passes on leave it in the order in which   *)
(* they arrived on its inbound channel; a context is passed on in order or *)
(* not at all.                                                             *)
(***************************************************************************)
OrderKept ==
    \A c \in Components : ~IsSource(c) => InOrderOf(emitted[c], received[c])

\* three contexts arrived at a Component, the second was diverted, and the
\* first and the third went on
OrderKeptWitness ==
    \E c \in Components :
        /\ received[c] = << 1, 2, 3 >>
        /\ emitted[c] = << 1, 3 >>

(***************************************************************************)
(* C9: a soft redeemer run on a context that does not hold its key does    *)
(* not panic, leaves the context and the pools as they are, and the        *)
(* context goes on to the next Processor.                                  *)
(***************************************************************************)
\* the soft redeemer of Component c runs on a context without its key
SoftRedeemWithoutKey(c) ==
    /\ c \in Components
    /\ At(c, "RedeemSoft")
    /\ Here(c).key \notin DOMAIN Frame(c).buffers
    /\ Steps(c)

SoftRedeemIsNoOp ==
    [][\A c \in AllComponents :
          SoftRedeemWithoutKey(c) =>
              /\ fault' = None
              /\ cur'[c] = cur[c]
              /\ pc'[c] = pc[c] + 1
              /\ pool' = pool
              /\ lastRedeemed' = lastRedeemed]_vars

\* the Error pipeline's first soft redeemer found no buffer under its key on
\* a context that holds another buffer, and the context went on
SoftRedeemIsNoOpWitness ==
    /\ cur["Error"] # None
    /\ pc["Error"] = 3
    /\ DOMAIN Frame("Error").buffers # {}
    /\ \E e \in done : e.id = Ctx("Error").id /\ e.comp = "Error" /\ e.eff = "noop"

(***************************************************************************)
(* C10: a strict redeem of a context that does not hold the pool's key, or *)
(* holds under it a buffer that is not the pool's, ends in the abort state *)
(* with the pools' Free sets, and the caller's context, as they were       *)
(* before the call.                                                        *)
(***************************************************************************)
\* the context does not hold a buffer of pool `key` under `key`
NotOfPool(fd, key) ==
    key \notin DOMAIN fd.buffers \/ fd.buffers[key].pool # key

StrictRedeemAborts ==
    \A call \in before :
        call.op = "Redeem" /\ NotOfPool(call.frame, call.key) =>
            /\ fault # None
            /\ pool = call.pool
            /\ Frame(call.caller) = call.frame

\* a caller that holds nothing made a strict redeem on a pool whose buffer
\* the other caller has borrowed
StrictRedeemAbortsWitness ==
    \E call \in before :
        /\ call.op = "Redeem"
        /\ call.key \notin DOMAIN call.frame.buffers
        /\ fault # None
        /\ pool[call.key] = {}
        /\ \E o \in Callers : o # call.caller /\ GetRef(Frame(o), call.key) # None

(***************************************************************************)
(* C3: whatever the iteration order the encoder met, decoding the encoded  *)
(* bytes succeeds and gives back the same statistics map, the same error   *)
(* and, key for key, the same buffer contents, with no key added or lost.  *)
(***************************************************************************)
RoundTripLaw ==
    fdOut # None =>
        LET r == Unwrap(fdOut)
        IN  /\ r.ok
            /\ r.val.statistics = fdIn.statistics
            /\ r.val.error = fdIn.error
            /\ DOMAIN r.val.buffers = DOMAIN fdIn.buffers
            /\ \A k \in DOMAIN fdIn.buffers : r.val.buffers[k] = fdIn.buffers[k]

\* a context with two statistics, an error and two non-empty buffers was
\* encoded and decoded
RoundTripWitness ==
    /\ fdOut # None
    /\ Cardinality(DOMAIN fdIn.statistics) = 2
    /\ 70000 \in Range(fdIn.statistics)
    /\ fdIn.error = Some("CodecError")
    /\ Cardinality(DOMAIN fdIn.buffers) = 2
    /\ \A k \in DOMAIN fdIn.buffers : fdIn.buffers[k] # << >>

(***************************************************************************)
(* Scheduling: the runtime runs every Component task that can run.         *)
(***************************************************************************)
FairSpec == Spec /\ WF_vars(Next)

\* the Component that ends the Main pipeline
Terminal == IF app = "server" THEN "Main4" ELSE "Main3"

\* the ids an OnErrorSwitch has diverted
DivertedIds == { d.id : d \in diverted }

\* every Component waits for a context and no context waits in a channel
Quiescent ==
    \A c \in Components : pc[c] = 0 /\ cur[c] = None /\ chan[c] = << >>

(***************************************************************************)
(* C11: diversions do not stop the pipelines.  Whatever was diverted, the  *)
(* process is not aborted, and from any state in which a context has been  *)
(* diverted the pipelines reach a state in which every context originated  *)
(* so far, the later ones included, was itself diverted or has reached the *)
(* end of the terminal Main Component, and every Component is back to      *)
(* waiting for its next context.                                           *)
(***************************************************************************)
\* every context originated so far was diverted or left the terminal Component
AllAccounted ==
    \A i \in 1..nextId : i \in DivertedIds \/ i \in Range(emitted[Terminal])

SoftErrorsDoNotStop ==
    /\ [](diverted # {} => fault = None)
    /\ (diverted # {}) ~> (Quiescent /\ AllAccounted)

\* the first context was diverted and the second, healthy, was passed on by
\* the terminal Component
SoftErrorsDoNotStopWitness ==
    /\ 1 \in DivertedIds
    /\ 2 \in Range(emitted[Terminal])
    /\ 2 \notin DivertedIds

(***************************************************************************)
(* C12: the bytes an encode produced are the bytes of every encode of an   *)
(* equal FrameData: whatever order the two maps are iterated in, the       *)
(* encoding is the same byte sequence.                                     *)
(***************************************************************************)
EncodeIsDeterministic ==
    wire # None =>
        \A so \in Orders(fdIn.statistics), bo \in Orders(fdIn.buffers) :
            Encode(fdIn, so, bo) = Unwrap(wire)

(***************************************************************************)
(* Timestamp processors on one context: a context with some statistics,    *)
(* buffers and error slot is passed through one TimestampAdder or one      *)
(* TimestampDiffCalculator, at some reading of the clock.                  *)
(***************************************************************************)
\* the statistics a context arrives with, their values, the clock's readings
StampStats == { "CaptureTime", "EncodePushTime", "EncodeTime" }
StampValues == { 7, 1000 }
StampTimes == { 1000, 1040 }

\* the (source, target) pairs of the calculators main() appends, and the
\* document's EncodeTime = now - CaptureTime
Calculators ==
    { << p.src, p.dst >> :
        p \in { q \in UNION { Range(ServerChains[c]) : c \in DOMAIN ServerChains }
                      \cup UNION { Range(ClientChains[c]) : c \in DOMAIN ClientChains } :
                  q.op = "TimestampDiff" } }
    \cup { << "CaptureTime", "EncodeTime" >> }

\* the statistics the adders main() appends stamp
Adders ==
    { p.dst :
        p \in { q \in UNION { Range(ServerChains[c]) : c \in DOMAIN ServerChains }
                      \cup UNION { Range(ClientChains[c]) : c \in DOMAIN ClientChains } :
                  q.op = "TimestampAdder" } }

StampInputs ==
    [statistics : MapsUpTo(StampStats, StampValues, MaxEntries),
     buffers : { EmptyMap,
                 MapInsert(EmptyMap, "EncodedFrameBuffer",
                           PoolBuffer("EncodedFrameBuffer", 1)),
                 MapInsert(EmptyMap, "CapturedRGBAFrameBuffer",
                           PoolBuffer("CapturedRGBAFrameBuffer", 1)) },
     error : { None, Some("CodecError") }]

InitStamp ==
    /\ app = "stamp"
    /\ registry = EmptyMap
    /\ bootPc = 0
    /\ resolved = {}
    /\ pool = EmptyMap
    /\ cur = EmptyMap
    /\ pc = EmptyMap
    /\ chan = EmptyMap
    /\ nextId = 0
    /\ fault = None
    /\ received = EmptyMap
    /\ emitted = EmptyMap
    /\ diverted = {}
    /\ discarded = {}
    /\ done = {}
    /\ lastRedeemed = EmptyMap
    /\ before = None
    /\ fdIn \in StampInputs
    /\ wire = None
    /\ fdOut = None

\* TimestampAdder::process at clock reading `now`
CallAdder(dst, now) ==
    /\ fdOut = None
    /\ fdOut' = Some(AddTimestamp(fdIn, dst, now))
    /\ before' = Some([op |-> "Add", src |-> dst, dst |-> dst, now |-> now])
    /\ UNCHANGED << app, registry, bootPc, resolved, pool, cur, pc, chan, nextId, fault, received, emitted,
                    diverted, discarded, done, lastRedeemed, fdIn, wire >>

\* TimestampDiffCalculator::process at clock reading `now`, on a context that
\* has the source statistic, stamped no later than `now`
CallDiff(src, dst, now) ==
    /\ fdOut = None
    /\ Get(fdIn, src) # None
    /\ Unwrap(Get(fdIn, src)) <= now
    /\ fdOut' = Some(DiffTimestamp(fdIn, src, dst, now))
    /\ before' = Some([op |-> "Diff", src |-> src, dst |-> dst, now |-> now])
    /\ UNCHANGED << app, registry, bootPc, resolved, pool, cur, pc, chan, nextId, fault, received, emitted,
                    diverted, discarded, done, lastRedeemed, fdIn, wire >>

NextStamp ==
    \/ \E dst \in Adders, now \in StampTimes : CallAdder(dst, now)
    \/ \E calc \in Calculators, now \in StampTimes : CallDiff(calc[1], calc[2], now)

SpecStamp == InitStamp /\ [][NextStamp]_vars

(***************************************************************************)
(* C13: a TimestampDiffCalculator computing target = now - source on a     *)
(* context that has source returns a context in which source has the value *)
(* it had, target is now - source, every other statistic is as it was, no  *)
(* statistic was added or lost, and buffers and error slot are unchanged;  *)
(* whether the context holds EncodedFrameBuffer makes no difference.       *)
(***************************************************************************)
DiffKeepsTheRest ==
    \A call \in before :
        call.op = "Diff" =>
            LET r == Unwrap(fdOut)
            IN  /\ DOMAIN r.statistics = DOMAIN fdIn.statistics \cup { call.dst }
                /\ r.statistics[call.src] = fdIn.statistics[call.src]
                /\ r.statistics[call.dst] = call.now - fdIn.statistics[call.src]
                /\ \A k \in DOMAIN fdIn.statistics \ { call.dst } :
                      r.statistics[k] = fdIn.statistics[k]
                /\ r.buffers = fdIn.buffers
                /\ r.error = fdIn.error

\* the document's scenario: {CaptureTime: 1000}, no EncodedFrameBuffer,
\* EncodeTime = now - CaptureTime at now = 1040
DiffKeepsTheRestWitness ==
    /\ fdIn.statistics = MapInsert(EmptyMap, "CaptureTime", 1000)
    /\ "EncodedFrameBuffer" \notin DOMAIN fdIn.buffers
    /\ before = Some([op |-> "Diff", src |-> "CaptureTime", dst |-> "EncodeTime",
                      now |-> 1040])
    /\ fdOut # None
    /\ Unwrap(fdOut).statistics =
          MapInsert(MapInsert(EmptyMap, "CaptureTime", 1000), "EncodeTime", 40)

(***************************************************************************)
(* C14: a name of the PipelineRegistry, once registered, maps to the same  *)
(* Pipeline from then on; every get_mut(Error) of main() finds Error       *)
(* registered, and the handle each OnErrorSwitch holds while the pipelines *)
(* run is the Pipeline the registry has under Error.                       *)
(***************************************************************************)
RegisteredStays ==
    \A n \in DOMAIN registry : registry[n] # None => registry'[n] = registry[n]

ErrorIsRegistered ==
    /\ AtBoot("get_mut") => registry[Boot[bootPc].name] # None
    /\ \A r \in resolved : r.name = "Error" /\ registry["Error"] = Some(r.handle)
    /\ Running =>
          \A c \in Components : \A i \in DOMAIN Chains[c] :
              Chains[c][i].op = "OnErrorSwitch" =>
                  \E r \in resolved : r.by = c /\ r.name = Chains[c][i].key

RegistryIsStable == [][RegisteredStays]_vars /\ []ErrorIsRegistered

\* both names are registered, the pipelines run, and a switch has pushed a
\* context through the handle it resolved while Main was built
RegistryIsStableWitness ==
    /\ Running
    /\ \A n \in DOMAIN registry : registry[n] # None
    /\ \E d \in diverted : \E r \in resolved :
          r.by = d.by /\ d.id \in Range(received[Head(r.handle.components)])

(***************************************************************************)
(* C15: once a Processor of a Component has returned None for a context,   *)
(* no later Processor of that Component runs on the context, the Component *)
(* does not pass it on and the next Component never receives it.  In the   *)
(* client, a context diverted by the second Component's switch never meets *)
(* that Component's strict redeemer: its decoded buffer is given back by   *)
(* the Error pipeline only, and once the Error pipeline is through with    *)
(* the context, exactly once.                                              *)
(***************************************************************************)
\* the executions that gave the buffer of `key` held by context `id` back
RedeemsOf(id, key) ==
    { e \in done : e.id = id /\ e.eff = "redeemed" /\ Chains[e.comp][e.idx].key = key }

ChainHaltsAtNone ==
    \A e \in done :
        e.eff = "diverted" =>
            /\ \A f \in done : f.id = e.id /\ f.comp = e.comp => f.idx <= e.idx
            /\ e.id \notin Range(emitted[e.comp])
            /\ \A d \in Downstream(e.comp) : e.id \notin Range(received[d])
            /\ app = "client" /\ e.comp = "Main2" =>
                  /\ \A r \in RedeemsOf(e.id, "DecodedRGBAFrameBuffer") : r.comp = "Error"
                  /\ Cardinality(RedeemsOf(e.id, "DecodedRGBAFrameBuffer")) <= 1
                  /\ e.id \in Range(emitted["Error"]) =>
                        Cardinality(RedeemsOf(e.id, "DecodedRGBAFrameBuffer")) = 1

\* the client's second Component diverted a context after an earlier one had
\* gone through its strict redeemer, and the Error pipeline gave the diverted
\* context's decoded buffer back
ChainHaltsAtNoneWitness ==
    /\ app = "client"
    /\ \E e \in done :
          /\ e.eff = "diverted"
          /\ e.comp = "Main2"
          /\ e.id \in Range(emitted["Error"])
          /\ \E r \in RedeemsOf(e.id, "DecodedRGBAFrameBuffer") : r.comp = "Error"
          /\ \E f \in done : f.id < e.id /\ f.comp = "Main2" /\ f.eff = "redeemed"

(***************************************************************************)
(* C16: between its creation and the first OnErrorSwitch it reaches, a     *)
(* context of the Main pipelines has report_error called on it at most     *)
(* once.                                                                   *)
(***************************************************************************)
\* whether a context at position n of Component c's chain, or waiting in c's
\* inbound channel (n = 0), has been through an OnErrorSwitch
SwitchBefore(c, n) ==
    \/ Stage(c) = 0
    \/ \E i \in 1..(n - 1) : i \in DOMAIN Chains[c] /\ Chains[c][i].op = "OnErrorSwitch"
    \/ \E u \in Components : \E i \in DOMAIN Chains[u] :
          /\ Stage(u) > 0
          /\ Stage(u) < Stage(c)
          /\ Chains[u][i].op = "OnErrorSwitch"

Occurrences(q, x) == Cardinality({ i \in DOMAIN q : q[i] = x })

\* the switch of Component c holds an errored context and its target is full
SwitchSaturated(c) ==
    /\ At(c, "OnErrorSwitch")
    /\ Frame(c).error # None
    /\ Len(chan[SwitchTarget(c)]) >= ChanCap

DivertedIsKept ==
    /\ \A c \in Components :
          SwitchSaturated(c) => ~ENABLED (DoSwitch(c) /\ UNCHANGED codecVars)
    /\ \A d \in diverted :
          /\ Occurrences(received["Error"], d.id) = 1
          /\ Occurrences(emitted["Error"], d.id)
               + Cardinality({ x \in cur["Error"] : x.id = d.id })
               + Cardinality({ i \in DOMAIN chan["Error"] : chan["Error"][i].id = d.id })
             = 1

NoDivertedLost ==
    /\ []DivertedIsKept
    /\ (diverted # {}) ~> (DivertedIds \subseteq Range(emitted["Error"]))

\* in the client each switch has diverted a context, both wait in the Error
\* pipeline's inbound channel, which is full, and a third errored context is
\* held back at its switch
NoDivertedLostWitness ==
    /\ app = "client"
    /\ \E d, e \in diverted :
          /\ d.by = "Main1" /\ e.by = "Main2"
          /\ \E i, j \in DOMAIN chan["Error"] :
                chan["Error"][i].id = d.id /\ chan["Error"][j].id = e.id
    /\ \E c \in Components : SwitchSaturated(c)

(***************************************************************************)
(* C18: in the server's and the client's pipelines every context that      *)
(* arrives at a strict redeemer, healthy or errored, holds under the       *)
(* redeemer's key a buffer of that key's pool, and the process never       *)
(* aborts on a redeem.                                                     *)
(***************************************************************************)
RedeemFaults ==
    { Some("redeem: missing buffer"), Some("redeem: foreign buffer") }

StrictRedeemerFindsKey ==
    /\ fault \notin RedeemFaults
    /\ \A c \in Components :
          At(c, "Redeem") =>
              /\ Here(c).key \in DOMAIN Frame(c).buffers
              /\ Frame(c).buffers[Here(c).key].pool = Here(c).key
              /\ ENABLED (DoRedeem(c) /\ fault' = None /\ UNCHANGED codecVars)

\* the server's second Component has given the captured buffer of an errored
\* context back through its strict redeemer, and the strict redeemers of the
\* third Component have run on an earlier, healthy context
StrictRedeemerFindsKeyWitness ==
    /\ app = "server"
    /\ cur["Main2"] # None
    /\ Frame("Main2").error # None
    /\ \E e \in done :
          /\ e.id = Ctx("Main2").id /\ e.comp = "Main2"
          /\ Chains[e.comp][e.idx].op = "Redeem" /\ e.eff = "redeemed"
    /\ \E e, f \in done :
          /\ e.comp = "Main3" /\ f.comp = "Main3" /\ e.id = f.id /\ e.idx < f.idx
          /\ e.eff = "redeemed" /\ f.eff = "redeemed"

(***************************************************************************)
(* C19: with pools of capacity 1 and bounded channels the pipelines do not *)
(* deadlock.  The Component tasks being scheduled fairly and the I/O       *)
(* Processors returning, every run gets all of its MaxFrames contexts      *)
(* through: it reaches the state in which every Component waits for its    *)
(* next context, no context is left in a channel and every buffer is Free, *)
(* so that every buffer that was borrowed has been redeemed and no         *)
(* Component is left waiting at a borrower; and a Component leaves a       *)
(* borrower only with the buffer.                                          *)
(***************************************************************************)
\* every context of the run is through and every buffer is back
Through ==
    /\ fault = None
    /\ nextId = MaxFrames
    /\ Quiescent
    /\ \A k \in DOMAIN pool : pool[k] = Register(k, POOLS_SIZE)

\* a Component that was waiting at a borrower and no longer is holds the buffer
LeavesBorrowerWithBuffer ==
    \A b \in Borrowers :
        WaitsFor(b[1], b[2]) /\ ~WaitsFor(b[1], b[2])' => HasBorrowed(b[1], b[2])'

NoDeadlock == [][LeavesBorrowerWithBuffer]_vars /\ <>Through

\* a Component waits at its borrower while the pool's only buffer is held by
\* a diverted context that the Error pipeline has not yet taken up
NoDeadlockWitness ==
    \E c \in Components, k \in DOMAIN pool :
        /\ WaitsFor(c, k)
        /\ pool[k] = {}
        /\ \E i \in DOMAIN chan["Error"] : k \in DOMAIN chan["Error"][i].frame.buffers

(***************************************************************************)
(* C20: every context that arrives at a TimestampDiffCalculator of the     *)
(* server's or the client's pipelines has the calculator's source          *)
(* statistic set, and no calculator ever fails for want of it: the server  *)
(* contexts have EncodePushTime and TransmissionStartTime, errored ones    *)
(* too at the calculator of component 2, which precedes the switch; the    *)
(* client contexts have CaptureTime, which came with the decoded           *)
(* FrameData, and DecodePushTime.                                          *)
(***************************************************************************)
SourceIsSet ==
    /\ fault # Some("diff: missing source")
    /\ \A c \in Components :
          At(c, "TimestampDiff") => Here(c).src \in DOMAIN Frame(c).statistics

\* the calculator of the server's second Component has run on an errored
\* context, which now waits at the switch with EncodeTime set
SourceIsSetWitness ==
    /\ app = "server"
    /\ At("Main2", "OnErrorSwitch")
    /\ Frame("Main2").error # None
    /\ { "EncodePushTime", "EncodeTime" } \subseteq DOMAIN Frame("Main2").statistics
    /\ \E e \in done :
          /\ e.id = Ctx("Main2").id /\ e.comp = "Main2"
          /\ Chains[e.comp][e.idx].op = "TimestampDiff" /\ e.eff = "ok"

====
